---- MODULE Spec2Model ----
(***************************************************************************)
(* Model of the Tacto Track backend (backend/main.py): the in-memory       *)
(* investigation registry, the submit handler process_requirements, the    *)
(* polling handler get_investigation_status, the Exa discovery adapter     *)
(* (create_exa_webset, parse_exa_webset_items) and the conversation        *)
(* simulator (simulate_email_conversation, and simulate_conversation of    *)
(* backend/email_simulation.py).                                           *)
(*                                                                         *)
(* Time is the wall clock in seconds.  The two handlers are coroutines of  *)
(* one event loop that contain no await: a handler that has started runs   *)
(* to its response before another handler starts, and its blocking         *)
(* provider calls and time.sleep(60) hold the loop meanwhile.              *)
(***************************************************************************)
EXTENDS Integers, Sequences, FiniteSets, TLC

VARIABLES exa_client, openai_client, pyhash, investigations, websets, now,
          pc, cur, response, last, submits, reported,
          sim_in, sim_out, parse_in, parse_out, startup

vars == <<exa_client, openai_client, pyhash, investigations, websets, now,
          pc, cur, response, last, submits, reported,
          sim_in, sim_out, parse_in, parse_out, startup>>

service_vars == <<exa_client, openai_client, pyhash, investigations, websets,
                  now, pc, cur, response, last, submits, reported>>

pure_vars == <<sim_in, sim_out, parse_in, parse_out>>

(***************************************************************************)
(* Bounds of the model.                                                    *)
(***************************************************************************)
MaxTime == 150

TickStep == 15

MaxSubmits == 2

MaxItems == 2

MaxCapItems == 12

(***************************************************************************)
(* Program constants.                                                      *)
(***************************************************************************)
WebsetWait == 60

CompletedAfter == 65

MaxResults == 10

BaseScore == 85

ScoreStep == 2

IdModulus == 10000000

\* Python's None, and the absence of a key in a parsed JSON object.
None == "<None>"

Absent == "<absent>"

(***************************************************************************)
(* BuyerRequirement.  The fields the code never branches on are fixed.     *)
(***************************************************************************)
BuyerRequirement ==
    [companyName : {"Acme"}, contactName : {"Ann"},
     email : {"ann@acme.com", "bob@acme.com"}, phone : {"555"},
     productDescription : {"M8 bolts", "sensors"}, quantity : {"100"},
     budgetRange : {"5k"}, timeline : {"Q1"}, specifications : {None}]

\* The string hashed by process_requirements: email + str(companyName).
IdKey(requirement) == requirement.email \o requirement.companyName

IdKeys == {IdKey(r) : r \in BuyerRequirement}

\* abs(hash(s)) for the strings hashed: hash is salted per process, so it
\* is some function of the string, injective or not.  Values of hash are
\* taken up to renaming: the hash of the first key is fixed.
HashValues == {31234567, 47654321}

PyHashes ==
    {h \in [IdKeys -> HashValues] : h["ann@acme.comAcme"] = 31234567}

\* f"INV-{abs(hash(key)) % 10000000}"
InvestigationId(h, requirement) ==
    "INV-" \o ToString(h[IdKey(requirement)] % IdModulus)

InvestigationIds == {"INV-" \o ToString(n % IdModulus) : n \in HashValues}

WebsetIds == {"ws_1"}

\* Identifiers a client may poll: every id submit can return, and a stranger.
PollIds == InvestigationIds \cup {"INV-unknown"}

(***************************************************************************)
(* Conversation messages.                                                  *)
(***************************************************************************)
\* datetime.now().strftime("%Y-%m-%d %H:%M:%S") at wall-clock second t.
Timestamp(t) == "T+" \o ToString(t) \o "s"

Message(role, content, t) ==
    [role |-> role, content |-> content, timestamp |-> Timestamp(t)]

Outreach(requirement) ==
    "Subject: Inquiry: " \o requirement.productDescription
        \o " / from " \o requirement.companyName
        \o " / Quantity: " \o requirement.quantity
        \o " / Budget: " \o requirement.budgetRange
        \o " / Timeline: " \o requirement.timeline
        \o " / " \o requirement.contactName

FallbackReply ==
    "Thank you for reaching out. Yes, I'm the right person to discuss this."

NoAction == [action |-> None, email |-> None]

(***************************************************************************)
(* What the LLM provider answers to the two chat completions of one        *)
(* simulation.  reply: the first call raises, or returns a text.           *)
(* extraction: the second call raises, or returns a text that json.loads   *)
(* rejects, or parses to a non-object, or parses to an object whose keys   *)
(* may each be absent.                                                     *)
(***************************************************************************)
ExtractedObjects ==
    [kind : {"object"},
     is_decision_maker : {Absent, "true", "false"},
     contact_email : {Absent, None, "boss@boltco.com"},
     reason : {Absent, "", "says so"}]

NotAnObject(kind) ==
    [kind |-> kind, is_decision_maker |-> Absent, contact_email |-> Absent,
     reason |-> Absent]

MalformedTexts == {NotAnObject("not_json"), NotAnObject("json_non_object")}

ExtractionResponses ==
    {NotAnObject("api_error")} \cup MalformedTexts \cup ExtractedObjects

LLMOutcomes ==
    {[reply |-> "raise", extraction |-> NotAnObject("api_error")]}
        \cup [reply : {"Sure, talk to me."}, extraction : ExtractionResponses]

\* Python truthiness of extracted.get(key).
Truthy(v) == v \notin {Absent, None, "", "false"}

\* extracted.get(key, default)
Get(v, default) == IF v = Absent THEN default ELSE v

\* json.loads(text) followed by extracted.get(...): raises unless the text
\* is JSON for an object.
ExtractionRaises(ext) == ext.kind # "object"

(***************************************************************************)
(* simulate_email_conversation(supplier_name, supplier_email, requirement) *)
(* with the LLM provider answering o, at wall-clock time t.                *)
(***************************************************************************)
BasicConversation(supplier_email, t) ==
    [conversation |->
        <<Message("assistant", "Found contact at " \o supplier_email, t)>>,
     is_decision_maker |-> "true",
     next_action |-> NoAction,
     reason |-> Absent]

\* The except branch: one more supplier message on whatever was collected.
FallbackConversation(conversation, t) ==
    [conversation |-> Append(conversation, Message("supplier", FallbackReply, t)),
     is_decision_maker |-> "true",
     next_action |-> NoAction,
     reason |-> Absent]

\* Mutant: the elif branch is missing, as in email_simulation.py.
NextAction_NoContinue(extracted, supplier_email) ==
    IF ~Truthy(extracted.is_decision_maker) /\ Truthy(extracted.contact_email)
    THEN [action |-> "contact_new_email", email |-> extracted.contact_email]
    ELSE NoAction

NextAction(extracted, supplier_email) ==
    IF ~Truthy(extracted.is_decision_maker) /\ Truthy(extracted.contact_email)
    THEN [action |-> "contact_new_email", email |-> extracted.contact_email]
    ELSE IF Truthy(extracted.is_decision_maker)
         THEN [action |-> "continue_with_current_contact",
               email |-> supplier_email]
         ELSE NoAction

ExtractedConversation(conversation, extracted, supplier_email) ==
    [conversation |-> conversation,
     is_decision_maker |-> Get(extracted.is_decision_maker, "false"),
     next_action |-> NextAction(extracted, supplier_email),
     reason |-> Get(extracted.reason, "")]

simulate_email_conversation(llm_on, supplier_name, supplier_email, requirement, o, t) ==
    IF ~llm_on
    THEN BasicConversation(supplier_email, t)
    ELSE LET outreach == <<Message("buyer", Outreach(requirement), t)>>
             replied  == Append(outreach, Message("supplier", o.reply, t))
         IN  IF o.reply = "raise"
             THEN FallbackConversation(outreach, t)
             ELSE IF o.extraction.kind = "api_error"
                     \/ ExtractionRaises(o.extraction)
                  THEN FallbackConversation(replied, t)
                  ELSE ExtractedConversation(replied, o.extraction,
                                             supplier_email)

(***************************************************************************)
(* simulate_conversation of email_simulation.py: the reply is canned, the  *)
(* extraction is not guarded by any try.  raised is the exception leaving  *)
(* the function.                                                           *)
(***************************************************************************)
CannedReply == "No, I'm not the right person. Please contact: nomenuovo@techsupply.com"

simulate_conversation(requirement, ext) ==
    LET conversation == <<[role |-> "buyer", message |-> Outreach(requirement)],
                          [role |-> "supplier", message |-> CannedReply]>>
    IN  IF ext.kind = "api_error" \/ ExtractionRaises(ext)
        THEN [raised |-> TRUE, conversation |-> <<>>, next_action |-> NoAction]
        ELSE [raised |-> FALSE,
              conversation |-> conversation,
              next_action |->
                 IF ~Truthy(ext.is_decision_maker) /\ Truthy(ext.contact_email)
                 THEN [action |-> "contact_new_email",
                       email |-> ext.contact_email]
                 ELSE NoAction]

(***************************************************************************)
(* Items of a webset as the three regular expressions of                   *)
(* parse_exa_webset_items see them in str(item): the e-mail shaped         *)
(* substrings in order of appearance, the name='...' attribute if any, the *)
(* LinkedIn URL if any.                                                    *)
(***************************************************************************)
SupplierEmails == {"kim@boltco.com", "info@fastenal.com"}

LinkedinUrl == "https://www.linkedin.com/in/kim"

ItemValues ==
    [emails : {<<>>, <<"kim@boltco.com">>, <<"info@fastenal.com">>,
               <<"info@fastenal.com", "kim@boltco.com">>},
     name : {Absent, "Kim Lee"},
     linkedin : {"", LinkedinUrl}]

\* E-mail addresses of the long listings: one per position.
CapEmail(i) == "s" \o ToString(i) \o "@boltco.com"

CapEmails == {CapEmail(i) : i \in 1..(MaxCapItems + 1)}

ExtractLinkedin(item) == item.linkedin

ExtractName(item) ==
    IF item.name = Absent THEN "Unknown Contact" ELSE item.name

\* re.search returns the first match.
ExtractEmail(item) ==
    IF item.emails = <<>> THEN None ELSE Head(item.emails)

\* email.split('@')[1].split('.')[0].title()
DomainTitle(email) ==
    CASE email = "kim@boltco.com" -> "Boltco"
      [] email = "info@fastenal.com" -> "Fastenal"
      [] email \in CapEmails -> "Boltco"
      [] OTHER -> "Domain"

\* email.split('@')[1]
EmailHost(email) ==
    CASE email = "kim@boltco.com" -> "boltco.com"
      [] email = "info@fastenal.com" -> "fastenal.com"
      [] email \in CapEmails -> "boltco.com"
      [] OTHER -> "domain"

\* name.split()[0]
FirstWord(name) ==
    CASE name = "Kim Lee" -> "Kim"
      [] name = "Unknown Contact" -> "Unknown"
      [] OTHER -> name

CompanyName(email, name) ==
    DomainTitle(email) \o " "
        \o (IF name # "" THEN FirstWord(name) ELSE "Company")

MatchScore(results) == BaseScore + Len(results) * ScoreStep

Capabilities(requirement, email, linkedin) ==
    <<"Supplier for " \o requirement.productDescription,
      "Contact via email: " \o email>>
        \o (IF linkedin # "" THEN <<"LinkedIn verified">> ELSE <<>>)

\* Mutant: the decision-maker note is put in front of the conversation.
Annotate_NoteFirst(email_simulation, t) ==
    LET next_action == email_simulation.next_action
        log0 == email_simulation.conversation
    IN  IF next_action.action \in {"contact_new_email",
                                   "continue_with_current_contact"}
        THEN <<Message("system", "Decision maker note", t)>> \o log0
        ELSE log0

\* The notes appended to the simulated conversation ("Add analysis note").
Annotate(email_simulation, t) ==
    LET next_action == email_simulation.next_action
        log0 == email_simulation.conversation
        log1 == IF next_action.action = "contact_new_email"
                THEN Append(log0, Message("system",
                        "Not decision maker. Recommended next contact: "
                            \o next_action.email, t))
                ELSE IF next_action.action = "continue_with_current_contact"
                     THEN Append(log0, Message("system",
                        "Confirmed decision maker. Ready for detailed discussion.", t))
                     ELSE log0
    IN  IF Truthy(email_simulation.reason)
        THEN Append(log1, Message("system",
                "Analysis: " \o email_simulation.reason, t))
        ELSE log1

SupplierMatch(company_name, email, linkedin, match_score, capabilities, conversation_log) ==
    [name |-> company_name,
     contact_email |-> email,
     contact_phone |-> "Contact via email for phone",
     website |-> IF linkedin # ""
                 THEN linkedin ELSE "https://" \o EmailHost(email),
     location |-> "Location TBD - verify via initial contact",
     match_score |-> match_score,
     capabilities |-> capabilities,
     conversation_log |-> conversation_log]

\* Mutant: the truthiness of email is not tested.
Accepted_NoEmailCheck(item, seen_emails) ==
    /\ ExtractEmail(item) \notin seen_emails
    /\ ExtractLinkedin(item) # ""

\* The item passes "if email and email not in seen_emails and linkedin".
Accepted(item, seen_emails) ==
    /\ ExtractEmail(item) # None
    /\ ExtractEmail(item) \notin seen_emails
    /\ ExtractLinkedin(item) # ""

BuildMatch(llm_on, item, results, requirement, o, t) ==
    LET email    == ExtractEmail(item)
        linkedin == ExtractLinkedin(item)
        company_name == CompanyName(email, ExtractName(item))
    IN  SupplierMatch(company_name, email, linkedin, MatchScore(results),
            Capabilities(requirement, email, linkedin),
            Annotate(simulate_email_conversation(llm_on, company_name, email,
                                                 requirement, o, t), t))

\* Mutant: the loop does not stop at ten results.
RECURSIVE ParseLoop_NoBreak(_, _, _, _, _, _, _, _)
ParseLoop_NoBreak(llm_on, data, i, results, seen_emails, requirement, llm, t) ==
    IF i > Len(data)
    THEN results
    ELSE IF Accepted(data[i], seen_emails)
         THEN ParseLoop_NoBreak(llm_on, data, i + 1,
                    Append(results, BuildMatch(llm_on, data[i], results,
                                               requirement, llm[i], t)),
                    seen_emails \cup {ExtractEmail(data[i])},
                    requirement, llm, t)
         ELSE ParseLoop_NoBreak(llm_on, data, i + 1, results, seen_emails,
                                requirement, llm, t)

\* The for loop over items_dict['data'], from item i on.
RECURSIVE ParseLoop(_, _, _, _, _, _, _, _)
ParseLoop(llm_on, data, i, results, seen_emails, requirement, llm, t) ==
    IF i > Len(data)
    THEN results
    ELSE IF Accepted(data[i], seen_emails)
         THEN LET appended == Append(results,
                    BuildMatch(llm_on, data[i], results, requirement, llm[i], t))
              IN  IF Len(appended) >= MaxResults
                  THEN appended
                  ELSE ParseLoop(llm_on, data, i + 1, appended,
                                 seen_emails \cup {ExtractEmail(data[i])},
                                 requirement, llm, t)
         ELSE ParseLoop(llm_on, data, i + 1, results, seen_emails,
                        requirement, llm, t)

\* The positions of the items the loop calls simulate_email_conversation
\* for, in order: the same walk as ParseLoop, from item i on with n results.
RECURSIVE ParseSources(_, _, _, _)
ParseSources(data, i, n, seen_emails) ==
    IF i > Len(data)
    THEN <<>>
    ELSE IF Accepted(data[i], seen_emails)
         THEN IF n + 1 >= MaxResults
              THEN <<i>>
              ELSE <<i>> \o ParseSources(data, i + 1, n + 1,
                                seen_emails \cup {ExtractEmail(data[i])})
         ELSE ParseSources(data, i + 1, n, seen_emails)

\* Mutant: simulate_email_conversation has no except clause, a failed chat
\* completion ends the loop in the except clause of the parser.
parse_exa_webset_items_SimulatorRaises(exa_on, llm_on, webset_id, requirement, listing, llm, t) ==
    IF ~exa_on \/ listing.kind = "raise"
    THEN <<>>
    ELSE LET sources == ParseSources(listing.data, 1, 0, {})
         IN  IF /\ llm_on
                /\ \E k \in 1..Len(sources) :
                      \/ llm[sources[k]].reply = "raise"
                      \/ ExtractionRaises(llm[sources[k]].extraction)
             THEN <<>>
             ELSE ParseLoop(llm_on, listing.data, 1, <<>>, {}, requirement,
                            llm, t)

\* listing: what exa_client.websets.items.list answers (raise, or the data).
parse_exa_webset_items(exa_on, llm_on, webset_id, requirement, listing, llm, t) ==
    IF ~exa_on
    THEN <<>>
    ELSE IF listing.kind = "raise"
         THEN <<>>
         ELSE ParseLoop(llm_on, listing.data, 1, <<>>, {}, requirement, llm, t)

(***************************************************************************)
(* The fallback list of get_investigation_status.                          *)
(***************************************************************************)
MockSuppliers(requirement) ==
    <<[name |-> "TechSupply Manufacturing Ltd.",
       contact_email |-> "sales@techsupply.com",
       contact_phone |-> "+1-555-0123",
       website |-> "https://techsupply.com",
       location |-> "San Jose, CA, USA",
       match_score |-> 92,
       capabilities |-> <<"ISO 9001:2015 certified",
                          "15+ years in industrial sensors",
                          "Digital I2C expertise", "IP67 housing production">>,
       conversation_log |->
          <<[role |-> "assistant",
             content |-> "Sent inquiry to sales@techsupply.com for "
                            \o requirement.quantity \o " temperature sensors",
             timestamp |-> "2024-01-15 10:30:00"],
            [role |-> "assistant",
             content |-> "Received positive response.",
             timestamp |-> "2024-01-15 14:45:00"]>>],
      [name |-> "GlobalSensor Industries",
       contact_email |-> "info@globalsensor.com",
       contact_phone |-> "+1-555-0456",
       website |-> "https://globalsensor.com",
       location |-> "Shenzhen, China",
       match_score |-> 87,
       capabilities |-> <<"Specialized in temperature sensors",
                          "I2C interfaces", "Automotive-grade components">>,
       conversation_log |->
          <<[role |-> "assistant",
             content |-> "Contacted GlobalSensor Industries",
             timestamp |-> "2024-01-15 11:00:00"]>>],
      [name |-> "Precision Components Co.",
       contact_email |-> "quotes@precisioncomp.com",
       contact_phone |-> "+1-555-0789",
       website |-> "https://precisioncomp.com",
       location |-> "Munich, Germany",
       match_score |-> 83,
       capabilities |-> <<"Custom sensor solutions",
                          "IP67/IP68 rated housings", "-40C to 150C range">>,
       conversation_log |->
          <<[role |-> "assistant",
             content |-> "Sent quote request to Precision Components Co.",
             timestamp |-> "2024-01-15 11:30:00"]>>]>>

(***************************************************************************)
(* create_exa_webset: outcome is what exa_client.websets.create does       *)
(* (raises, answers without an id, or answers a webset id).  slept is the  *)
(* time the function spends in time.sleep.                                 *)
(***************************************************************************)
CreateOutcomes == {"raise", "no_id"} \cup WebsetIds

create_exa_webset(exa_on, outcome) ==
    IF ~exa_on
    THEN [webset_id |-> None, slept |-> 0]
    ELSE IF outcome \in {"raise", "no_id"}
         THEN [webset_id |-> None, slept |-> 0]
         ELSE [webset_id |-> outcome, slept |-> WebsetWait]

(***************************************************************************)
(* The progressive status of get_investigation_status.                     *)
(***************************************************************************)
\* Mutant: the last band of the table never ends.
StatusAt_NeverCompleted(elapsed) ==
    IF elapsed < 10
    THEN [status |-> "processing", progress |-> 15,
          message |-> "Analyzing your requirements with AI..."]
    ELSE IF elapsed < 50
    THEN [status |-> "searching", progress |-> 30,
          message |-> "Searching web for supplier contacts and emails..."]
    ELSE [status |-> "processing", progress |-> 90,
          message |-> "Enriching data and matching suppliers to requirements..."]

StatusAt(elapsed) ==
    IF elapsed < 10
    THEN [status |-> "processing", progress |-> 15,
          message |-> "Analyzing your requirements with AI..."]
    ELSE IF elapsed < 20
    THEN [status |-> "searching", progress |-> 30,
          message |-> "Searching web for supplier contacts and emails..."]
    ELSE IF elapsed < 35
    THEN [status |-> "searching", progress |-> 50,
          message |-> "Crawling supplier websites and LinkedIn profiles..."]
    ELSE IF elapsed < 50
    THEN [status |-> "searching", progress |-> 70,
          message |-> "Extracting contact information and verifying emails..."]
    ELSE IF elapsed < 65
    THEN [status |-> "processing", progress |-> 90,
          message |-> "Enriching data and matching suppliers to requirements..."]
    ELSE [status |-> "completed", progress |-> 100,
          message |-> "Investigation complete!"]

\* Mutant: an unknown identifier is answered like a fresh investigation.
NotFoundResponse_AsProcessing(investigation_id) ==
    [investigation_id |-> investigation_id, status |-> "processing",
     progress |-> 0, message |-> "Investigation not found"]

NotFoundResponse(investigation_id) ==
    [investigation_id |-> investigation_id, status |-> "error",
     progress |-> 0, message |-> "Investigation not found"]

\* Mutant: the suppliers key is sent with every status.
ProcessingResponse_WithSuppliers(investigation_id, st) ==
    [investigation_id |-> investigation_id, status |-> st.status,
     progress |-> st.progress, message |-> st.message, suppliers |-> <<>>]

ProcessingResponse(investigation_id, st) ==
    [investigation_id |-> investigation_id, status |-> st.status,
     progress |-> st.progress, message |-> st.message]

CompletedResponse(investigation_id, st, suppliers) ==
    [investigation_id |-> investigation_id, status |-> st.status,
     progress |-> st.progress, message |-> st.message,
     suppliers |-> suppliers]

SubmitResponse(investigation_id) ==
    [investigation_id |-> investigation_id, status |-> "processing",
     message |-> "Investigation started. Poll /api/v1/investigations/{id}/status for updates."]

\* investigations[investigation_id] = {...}
InvestigationEntry(requirement, t, webset_id) ==
    [status |-> "processing", progress |-> 0,
     message |-> "Initializing AI agents and searching for suppliers...",
     requirement |-> requirement, created_at |-> t, webset_id |-> webset_id]

Put(registry, key, value) ==
    [k \in DOMAIN registry \cup {key} |->
        IF k = key THEN value ELSE registry[k]]

\* Mutant: no fallback, the empty list is returned as it is.
OrMock_NoFallback(suppliers, requirement) == suppliers

\* "if not suppliers: suppliers = [mock...]"
OrMock(suppliers, requirement) ==
    IF suppliers = <<>> THEN MockSuppliers(requirement) ELSE suppliers

(***************************************************************************)
(* The service: state after import of main.py.                             *)
(***************************************************************************)
Empty == [k \in {} |-> None]

NoHandler ==
    [op |-> "none", investigation_id |-> None, requirement |-> None,
     st |-> StatusAt(0)]

NoResponse == [status |-> "none"]

\* What is recorded about the handler that produced the last response.
Last(op, id, waited, provider_calls, llm_calls, listing, discovered, elapsed) ==
    [op |-> op, investigation_id |-> id, waited |-> waited,
     provider_calls |-> provider_calls, llm_calls |-> llm_calls,
     listing |-> listing, discovered |-> discovered, elapsed |-> elapsed]

\* The statuses get_investigation_status has reported for each registered
\* investigation, in order, a status reported several times in a row
\* counted once.  Nothing is recorded unless recording was switched on in
\* the initial state.
Unrecorded == [on |-> FALSE, statuses |-> Empty]

Recording == [on |-> TRUE, statuses |-> Empty]

Report(h, investigation_id, status) ==
    IF ~h.on
    THEN h
    ELSE LET before == IF investigation_id \in DOMAIN h.statuses
                       THEN h.statuses[investigation_id] ELSE <<>>
         IN  IF before # <<>> /\ before[Len(before)] = status
             THEN h
             ELSE [h EXCEPT !.statuses =
                     Put(h.statuses, investigation_id, Append(before, status))]

\* No module of the backend has been started in this behaviour.
NoStartup == [kind |-> "none"]

NoPure == [kind |-> "none"]

PureIdle ==
    /\ sim_in = NoPure /\ sim_out = NoPure
    /\ parse_in = NoPure /\ parse_out = NoPure

Init ==
    /\ exa_client \in BOOLEAN
    /\ openai_client \in BOOLEAN
    /\ pyhash \in PyHashes
    /\ investigations = Empty
    /\ websets = Empty
    /\ now = 0
    /\ pc = "idle"
    /\ cur = NoHandler
    /\ response = NoResponse
    /\ last = Last("none", None, FALSE, 0, 0, "none", <<>>, 0)
    /\ submits = 0
    /\ reported = Unrecorded
    /\ startup = NoStartup
    /\ PureIdle

(***************************************************************************)
(* process_requirements                                                    *)
(***************************************************************************)
\* The tail of the handler, once create_exa_webset has returned w (or was
\* skipped): associate the webset, store the investigation, respond.
Register(investigation_id, requirement, w, waited, calls) ==
    /\ websets' = IF w.webset_id # None
                  THEN Put(websets, investigation_id, w.webset_id)
                  ELSE websets
    /\ now' = now + w.slept
    /\ investigations' = Put(investigations, investigation_id,
            InvestigationEntry(requirement, now + w.slept, w.webset_id))
    /\ response' = SubmitResponse(investigation_id)
    /\ last' = Last("submit", investigation_id, waited, calls, 0, "none", <<>>, 0)
    /\ pc' = "idle"
    /\ cur' = NoHandler

\* The handler starts; without a client it runs to its response at once,
\* with a client it enters exa_client.websets.create.
process_requirements(requirement) ==
    /\ pc = "idle"
    /\ submits < MaxSubmits
    /\ submits' = submits + 1
    /\ LET investigation_id == InvestigationId(pyhash, requirement)
       IN  IF exa_client
           THEN /\ now + WebsetWait <= MaxTime
                /\ pc' = "exa_create"
                /\ cur' = [op |-> "submit",
                           investigation_id |-> investigation_id,
                           requirement |-> requirement, st |-> StatusAt(0)]
                /\ UNCHANGED <<investigations, websets, now, response, last>>
           ELSE Register(investigation_id, requirement,
                         create_exa_webset(FALSE, "raise"), FALSE, 0)
    /\ UNCHANGED <<exa_client, openai_client, pyhash, reported>>
    /\ UNCHANGED <<pure_vars, startup>>

\* exa_client.websets.create returns or raises; the handler sleeps if it got
\* an id and runs to its response.
create_exa_webset_return(outcome) ==
    /\ pc = "exa_create"
    /\ Register(cur.investigation_id, cur.requirement,
                create_exa_webset(exa_client, outcome), TRUE, 1)
    /\ UNCHANGED <<exa_client, openai_client, pyhash, submits, reported>>
    /\ UNCHANGED <<pure_vars, startup>>

(***************************************************************************)
(* get_investigation_status                                                *)
(***************************************************************************)
\* What the providers may answer during one poll of the service.
ServiceItemValues ==
    {[emails |-> <<>>, name |-> "Kim Lee", linkedin |-> LinkedinUrl],
     [emails |-> <<"kim@boltco.com">>, name |-> "Kim Lee", linkedin |-> LinkedinUrl]}

ServiceLLMOutcomes ==
    {[reply |-> "Sure, talk to me.", extraction |-> NotAnObject("not_json")],
     [reply |-> "Sure, talk to me.",
      extraction |-> [kind |-> "object", is_decision_maker |-> "true",
                      contact_email |-> Absent, reason |-> "says so"]],
     [reply |-> "Sure, talk to me.",
      extraction |-> [kind |-> "object", is_decision_maker |-> "false",
                      contact_email |-> "boss@boltco.com", reason |-> Absent]]}

SeqsUpTo(S, n) == UNION {[1..k -> S] : k \in 0..n}

Listings(S, n) ==
    {[kind |-> "raise", data |-> <<>>]}
        \cup {[kind |-> "ok", data |-> d] : d \in SeqsUpTo(S, n)}

\* Mutant: the webset id is not checked before the items are fetched.
UsesExa_IgnoresWebset(investigation, exa_on) == exa_on

\* "if webset_id and exa_client"
UsesExa(investigation, exa_on) == investigation.webset_id # None /\ exa_on

\* The handler up to its response or, when the investigation is completed
\* and has a webset, up to exa_client.websets.items.list: what it answers
\* and where it stands afterwards.
StatusReply(investigation_id) ==
    IF investigation_id \notin DOMAIN investigations
    THEN /\ response' = NotFoundResponse(investigation_id)
         /\ last' = Last("poll", investigation_id, FALSE, 0, 0, "none", <<>>, 0)
         /\ UNCHANGED <<pc, cur, reported>>
    ELSE LET investigation == investigations[investigation_id]
             requirement == investigation.requirement
             elapsed == now - investigation.created_at
             st == StatusAt(elapsed)
         IN  IF st.status = "completed"
             THEN IF UsesExa(investigation, exa_client)
                  THEN /\ pc' = "items_list"
                       /\ cur' = [op |-> "poll",
                                  investigation_id |-> investigation_id,
                                  requirement |-> requirement, st |-> st]
                       /\ UNCHANGED <<response, last, reported>>
                  ELSE /\ response' = CompletedResponse(investigation_id, st,
                                         OrMock(<<>>, requirement))
                       /\ last' = Last("poll", investigation_id, FALSE, 0, 0,
                                       "none", <<>>, elapsed)
                       /\ reported' = Report(reported, investigation_id,
                                              st.status)
                       /\ UNCHANGED <<pc, cur>>
             ELSE /\ response' = ProcessingResponse(investigation_id, st)
                  /\ last' = Last("poll", investigation_id, FALSE, 0, 0,
                                  "none", <<>>, elapsed)
                  /\ reported' = Report(reported, investigation_id, st.status)
                  /\ UNCHANGED <<pc, cur>>

\* Mutant: the handler writes the status it computed back into the entry.
get_investigation_status_StoresStatus(investigation_id) ==
    /\ pc = "idle"
    /\ StatusReply(investigation_id)
    /\ investigations' =
          IF investigation_id \in DOMAIN investigations
          THEN [investigations EXCEPT ![investigation_id].status =
                  StatusAt(now - investigations[investigation_id].created_at).status]
          ELSE investigations
    /\ UNCHANGED <<exa_client, openai_client, pyhash, websets, now, submits>>
    /\ UNCHANGED <<pure_vars, startup>>

get_investigation_status(investigation_id) ==
    /\ pc = "idle"
    /\ StatusReply(investigation_id)
    /\ UNCHANGED <<exa_client, openai_client, pyhash, investigations, websets,
                   now, submits>>
    /\ UNCHANGED <<pure_vars, startup>>

\* Number of chat completions one simulation issues.
LLMCalls(llm_on, o) ==
    IF ~llm_on THEN 0 ELSE IF o.reply = "raise" THEN 1 ELSE 2

RECURSIVE SumLLMCalls(_, _, _, _, _)
SumLLMCalls(llm_on, data, i, seen_emails, llm) ==
    IF i > Len(data)
    THEN 0
    ELSE IF Accepted(data[i], seen_emails)
         THEN LLMCalls(llm_on, llm[i])
                + (IF Cardinality(seen_emails) + 1 >= MaxResults
                   THEN 0
                   ELSE SumLLMCalls(llm_on, data, i + 1,
                            seen_emails \cup {ExtractEmail(data[i])}, llm))
         ELSE SumLLMCalls(llm_on, data, i + 1, seen_emails, llm)

\* items.list returns or raises; parse_exa_webset_items runs its loop with
\* the conversation simulations, and the handler responds.
items_list_return(listing, llm) ==
    /\ pc = "items_list"
    /\ LET suppliers == parse_exa_webset_items(exa_client, openai_client,
                            investigations[cur.investigation_id].webset_id,
                            cur.requirement, listing, llm, now)
       IN  /\ response' = CompletedResponse(cur.investigation_id, cur.st,
                                OrMock(suppliers, cur.requirement))
           /\ last' = Last("poll", cur.investigation_id, TRUE, 1,
                           SumLLMCalls(openai_client, listing.data, 1, {}, llm),
                           listing.kind, suppliers,
                           now - investigations[cur.investigation_id].created_at)
    /\ reported' = Report(reported, cur.investigation_id, cur.st.status)
    /\ pc' = "idle"
    /\ cur' = NoHandler
    /\ UNCHANGED <<exa_client, openai_client, pyhash, investigations, websets,
                   now, submits>>
    /\ UNCHANGED <<pure_vars, startup>>

\* The wall clock advances between handlers.  Inside a handler the only
\* time that passes is the 60 s wait of create_exa_webset.
Tick ==
    /\ pc = "idle"
    /\ now + TickStep <= MaxTime
    /\ now' = now + TickStep
    /\ UNCHANGED <<exa_client, openai_client, pyhash, investigations, websets,
                   pc, cur, response, last, submits, reported>>
    /\ UNCHANGED <<pure_vars, startup>>

Next ==
    \/ \E requirement \in BuyerRequirement : process_requirements(requirement)
    \/ \E outcome \in CreateOutcomes : create_exa_webset_return(outcome)
    \/ \E investigation_id \in PollIds : get_investigation_status(investigation_id)
    \/ \E listing \in Listings(ServiceItemValues, MaxItems),
          llm \in [1..MaxItems -> ServiceLLMOutcomes] :
            items_list_return(listing, llm)
    \/ Tick

Spec == Init /\ [][Next]_vars

TypeOK ==
    /\ pc \in {"idle", "exa_create", "items_list"}
    /\ now \in 0..MaxTime
    /\ DOMAIN investigations \subseteq InvestigationIds
    /\ DOMAIN websets \subseteq DOMAIN investigations

(***************************************************************************)
(* Steps of the service as seen from outside.                              *)
(***************************************************************************)
\* A step in which process_requirements sends its response.
SubmitResponds ==
    /\ pc' = "idle"
    /\ pc = "exa_create" \/ submits' # submits

\* A step of get_investigation_status (its start, its end, or both at once).
PollStep ==
    \/ pc = "items_list" /\ pc' = "idle"
    \/ pc = "idle" /\ pc' = "items_list"
    \/ pc = "idle" /\ pc' = "idle" /\ submits' = submits /\ now' = now

PolledKnown ==
    /\ last.op = "poll"
    /\ last.investigation_id \in DOMAIN investigations

\* C1: process_requirements responds without waiting for discovery: no
\* submit response is sent after create_exa_webset (with its processing
\* wait) has finished for that submission.
C1_SubmitDoesNotWaitForDiscovery ==
    last.op = "submit" => ~last.waited

\* C2: in every response of get_investigation_status the field suppliers is
\* present only if the reported status is "completed".
C2_SuppliersOnlyWhenCompleted ==
    last.op = "poll" =>
        ("suppliers" \in DOMAIN response => response.status = "completed")

C2_Witness ==
    /\ last.op = "poll"
    /\ "suppliers" \in DOMAIN response
    /\ submits = MaxSubmits

\* C3: a poll of an identifier that is not registered answers the fixed
\* not-found response for that identifier, without suppliers, whatever
\* happened before.
C3_UnknownIdNotFound ==
    (last.op = "poll" /\ last.investigation_id \notin DOMAIN investigations)
        => response = [investigation_id |-> last.investigation_id,
                       status |-> "error", progress |-> 0,
                       message |-> "Investigation not found"]

C3_Witness ==
    /\ last.op = "poll"
    /\ last.investigation_id \notin DOMAIN investigations
    /\ investigations # Empty
    /\ response.investigation_id \in InvestigationIds

\* Discovery yielded no candidate for the investigation of the last poll.
ZeroCandidates == PolledKnown /\ last.discovered = <<>>

DiscoveryErrored ==
    /\ PolledKnown
    /\ \/ exa_client /\ investigations[last.investigation_id].webset_id = None
       \/ last.listing = "raise"

\* C5 (as claimed): when the discovery adapter errors, the reported status
\* is "error".
C5_DiscoveryErrorReportsError ==
    DiscoveryErrored => response.status = "error"

\* C5 (amended): when the discovery adapter errors, the error is absorbed:
\* the reported status is never "error", it follows the elapsed-time
\* schedule, and from 65 s on it is "completed" with the mock suppliers.
C5_DiscoveryErrorFallsBack ==
    DiscoveryErrored =>
        /\ response.status \in {"processing", "searching", "completed"}
        /\ response.message # ""
        /\ last.elapsed >= 65 =>
              /\ response.status = "completed"
              /\ response.suppliers =
                   MockSuppliers(investigations[last.investigation_id].requirement)

C5_Witness ==
    /\ DiscoveryErrored
    /\ last.listing = "raise"
    /\ response.status = "completed"

\* C6: a poll never waits on provider work: it can be answered while a
\* discovery call is in flight, and it issues no discovery or LLM call.
C6_PollNeverWaitsOnProviders ==
    /\ pc = "exa_create" =>
          ENABLED (\E investigation_id \in PollIds :
                      get_investigation_status(investigation_id))
    /\ pc # "items_list"
    /\ last.op = "poll" => last.provider_calls = 0 /\ last.llm_calls = 0

\* C7: get_investigation_status leaves the investigations registry and the
\* websets registry unchanged, for known and unknown identifiers.
C7_PollReadOnly ==
    [][PollStep => UNCHANGED <<investigations, websets>>]_vars

C7_Witness ==
    /\ last.op = "poll"
    /\ last.provider_calls = 1
    /\ DOMAIN websets # {}
    /\ DOMAIN websets # DOMAIN investigations

\* The canonical text of a requirement.
CanonicalText(requirement) ==
    <<requirement.productDescription, requirement.quantity,
      requirement.budgetRange, requirement.timeline,
      requirement.specifications>>

\* C8: a submission whose canonical text equals that of an investigation
\* already stored reports cached = true and creates no investigation.
C8_SecondSubmissionCached ==
    [][(/\ SubmitResponds
        /\ \E k \in DOMAIN investigations :
              CanonicalText(investigations[k].requirement)
                = CanonicalText(investigations'[last'.investigation_id].requirement))
        => (/\ "cached" \in DOMAIN response'
            /\ response'.cached = TRUE
            /\ investigations' = investigations)]_vars

(***************************************************************************)
(* The conversation simulator on its own: the inputs are drawn in the      *)
(* initial state, the actions apply the two simulators to them.            *)
(***************************************************************************)
ServiceAtRest ==
    /\ exa_client = TRUE
    /\ openai_client = TRUE
    /\ pyhash \in {h \in PyHashes : \A k \in IdKeys : h[k] = 31234567}
    /\ investigations = Empty
    /\ websets = Empty
    /\ now = 0
    /\ pc = "idle"
    /\ cur = NoHandler
    /\ response = NoResponse
    /\ last = Last("none", None, FALSE, 0, 0, "none", <<>>, 0)
    /\ submits = 0
    /\ reported = Unrecorded
    /\ startup = NoStartup

SimInputs ==
    [kind : {"input"}, llm_on : BOOLEAN, supplier_name : {"Boltco Kim"},
     supplier_email : SupplierEmails,
     requirement : {r \in BuyerRequirement : r.email = "ann@acme.com"},
     o : LLMOutcomes, t : {0}]

SimInit ==
    /\ ServiceAtRest
    /\ sim_in \in SimInputs
    /\ sim_out = NoPure
    /\ parse_in = NoPure
    /\ parse_out = NoPure

\* main.py: simulate_email_conversation applied to the input.
SimulateEmailConversation ==
    /\ sim_out.kind # "main"
    /\ sim_out' = [kind |-> "main",
                   result |-> simulate_email_conversation(sim_in.llm_on,
                                 sim_in.supplier_name, sim_in.supplier_email,
                                 sim_in.requirement, sim_in.o, sim_in.t)]
    /\ UNCHANGED <<sim_in, parse_in, parse_out>>
    /\ UNCHANGED <<service_vars, startup>>

\* email_simulation.py: simulate_conversation applied to the input; its
\* client is always constructed and its reply is canned, so only the
\* extraction answer matters.
SimulateConversation ==
    /\ sim_out.kind # "standalone"
    /\ sim_in.o.reply # "raise"
    /\ sim_out' = [kind |-> "standalone",
                   result |-> simulate_conversation(sim_in.requirement,
                                                    sim_in.o.extraction)]
    /\ UNCHANGED <<sim_in, parse_in, parse_out>>
    /\ UNCHANGED <<service_vars, startup>>

SimNext == SimulateEmailConversation \/ SimulateConversation

SimSpec == SimInit /\ [][SimNext]_vars

\* The extraction answer is not parseable as the extraction schema.
Malformed(ext) ==
    \/ ext.kind \in {"not_json", "json_non_object"}
    \/ ext.kind = "object" /\ ext.is_decision_maker = Absent

\* C9: on a malformed extraction answer the simulator does not propagate
\* the error: it returns is_decision_maker = true, no next action, and the
\* log made of the buyer outreach followed by one supplier reply.
C9_MalformedExtractionFallsBack ==
    (/\ sim_out.kind \in {"main", "standalone"}
     /\ sim_in.llm_on
     /\ sim_in.o.reply # "raise"
     /\ Malformed(sim_in.o.extraction))
    => /\ sim_out.kind = "main" =>
            /\ sim_out.result.is_decision_maker = "true"
            /\ sim_out.result.next_action = NoAction
            /\ Len(sim_out.result.conversation) = 2
            /\ sim_out.result.conversation[1].role = "buyer"
            /\ sim_out.result.conversation[2].role = "supplier"
       /\ sim_out.kind = "standalone" =>
            /\ ~sim_out.result.raised
            /\ sim_out.result.next_action = NoAction
            /\ Len(sim_out.result.conversation) = 2

(***************************************************************************)
(* parse_exa_webset_items on its own: the listing and the answers of the   *)
(* LLM provider are drawn in the initial state, the action applies the     *)
(* function.                                                               *)
(***************************************************************************)
MaxParseItems == 2

ParseItemValues ==
    {i \in ItemValues :
        /\ i.name = "Kim Lee"
        /\ i.emails \in {<<>>, <<"kim@boltco.com">>,
                         <<"info@fastenal.com", "kim@boltco.com">>}}

ParseLLMOutcomes ==
    {o \in LLMOutcomes :
        \/ o.extraction.kind # "object"
        \/ /\ o.extraction.reason \in {Absent, "says so"}
           /\ o.extraction.contact_email \in {None, "boss@boltco.com"}
           /\ o.extraction.is_decision_maker \in {"true", "false"}
           /\ o.extraction.reason = Absent
                => o.extraction.contact_email = "boss@boltco.com"}

ParseInputs ==
    [kind : {"input"}, exa_on : {TRUE}, llm_on : BOOLEAN,
     webset_id : WebsetIds,
     requirement : {r \in BuyerRequirement :
                       r.email = "ann@acme.com"
                       /\ r.productDescription = "M8 bolts"},
     listing : Listings(ParseItemValues, MaxParseItems),
     llm : [1..MaxParseItems -> ParseLLMOutcomes], t : {0}]

ParseInit ==
    /\ ServiceAtRest
    /\ parse_in \in ParseInputs
    /\ parse_out = NoPure
    /\ sim_in = NoPure
    /\ sim_out = NoPure

ParseExaWebsetItems ==
    /\ parse_out = NoPure
    /\ parse_out' = [kind |-> "done",
                     results |-> parse_exa_webset_items(parse_in.exa_on,
                                    parse_in.llm_on, parse_in.webset_id,
                                    parse_in.requirement, parse_in.listing,
                                    parse_in.llm, parse_in.t)]
    /\ UNCHANGED <<sim_in, sim_out, parse_in>>
    /\ UNCHANGED <<service_vars, startup>>

ParseNext == ParseExaWebsetItems

ParseSpec == ParseInit /\ [][ParseNext]_vars

\* Buyer messages come before supplier messages, and both before system
\* notes.
OrderedLog(log) ==
    \A i, j \in 1..Len(log) :
        i < j =>
            /\ ~(log[i].role = "supplier" /\ log[j].role = "buyer")
            /\ ~(log[i].role = "system" /\ log[j].role = "supplier")
            /\ ~(log[i].role = "system" /\ log[j].role = "buyer")

\* C10: in the conversation log of every Supplier Match returned by
\* parse_exa_webset_items no supplier message precedes the buyer message
\* and no system note precedes a supplier message; a log with a supplier
\* message starts with the buyer outreach.
C10_ConversationLogOrdered ==
    parse_out.kind = "done" =>
        \A k \in 1..Len(parse_out.results) :
            LET log == parse_out.results[k].conversation_log
            IN  /\ OrderedLog(log)
                /\ (\E i \in 1..Len(log) : log[i].role \in {"supplier", "system"})
                      => log[1].role = "buyer"

C10_Witness ==
    /\ parse_out.kind = "done"
    /\ Len(parse_out.results) = 2
    /\ \E k \in 1..2 :
          LET log == parse_out.results[k].conversation_log
          IN  /\ Len(log) = 4
              /\ log[1].role = "buyer"
              /\ log[2].role = "supplier"
              /\ log[3].role = "system"
              /\ log[4].role = "system"

(***************************************************************************)
(* Claims about parse_exa_webset_items on short listings (ParseSpec).      *)
(***************************************************************************)
\* The e-mail addresses the parser extracts from the items of a listing.
ContactEmails(data) ==
    {ExtractEmail(data[i]) : i \in 1..Len(data)} \ {None}

\* The first position whose item carries e-mail e.
FirstCarrying(data, e) ==
    CHOOSE i \in 1..Len(data) :
        /\ ExtractEmail(data[i]) = e
        /\ \A j \in 1..(i - 1) : ExtractEmail(data[j]) # e

\* C11: the returned list is deduplicated by contact e-mail, first seen
\* wins: for every contact e-mail of the listing there is at most one
\* record, and it is the one built from the first item carrying it.
C11_DedupFirstSeenWins ==
    parse_out.kind = "done" =>
        LET data == parse_in.listing.data
            results == parse_out.results
        IN  \A e \in ContactEmails(data) :
                LET first == data[FirstCarrying(data, e)]
                    recs == {k \in 1..Len(results) :
                                results[k].contact_email = e}
                IN  /\ Cardinality(recs) <= 1
                    /\ \A k \in recs :
                          /\ results[k].name = CompanyName(e, ExtractName(first))
                          /\ results[k].website =
                               (IF ExtractLinkedin(first) # ""
                                THEN ExtractLinkedin(first)
                                ELSE "https://" \o EmailHost(e))
                          /\ results[k].capabilities =
                               Capabilities(parse_in.requirement, e,
                                            ExtractLinkedin(first))

\* C13: an item without an extractable e-mail yields no match and starts no
\* simulation: the k-th match carries the e-mail extracted from the k-th
\* item a simulation was started for, and that e-mail exists.
C13_NoEmailNoMatch ==
    parse_out.kind = "done" =>
        LET data == parse_in.listing.data
            results == parse_out.results
            sources == IF parse_in.listing.kind = "raise"
                       THEN <<>> ELSE ParseSources(data, 1, 0, {})
        IN  /\ Len(results) = Len(sources)
            /\ \A k \in 1..Len(sources) :
                  /\ ExtractEmail(data[sources[k]]) # None
                  /\ results[k].contact_email = ExtractEmail(data[sources[k]])
            /\ \A k \in 1..Len(results) :
                  results[k].contact_email \in ContactEmails(data)
            /\ Len(results) <=
                  Cardinality({i \in 1..Len(data) : ExtractEmail(data[i]) # None})

C13_Witness ==
    /\ parse_out.kind = "done"
    /\ Len(parse_in.listing.data) = 2
    /\ ExtractEmail(parse_in.listing.data[1]) = None
    /\ ExtractLinkedin(parse_in.listing.data[1]) # ""
    /\ Len(parse_out.results) = 1

(***************************************************************************)
(* parse_exa_webset_items on long listings: n items, one e-mail address    *)
(* per position except that item dup repeats the first address, item       *)
(* nolink has no LinkedIn URL; the LLM provider answers every simulation   *)
(* alike.                                                                  *)
(***************************************************************************)
CapData(n, dup, nolink) ==
    [i \in 1..n |->
        [emails |-> <<CapEmail(IF i = dup THEN 1 ELSE i)>>,
         name |-> "Kim Lee",
         linkedin |-> IF i = nolink THEN "" ELSE LinkedinUrl]]

CapLLMOutcomes ==
    {[reply |-> "raise", extraction |-> NotAnObject("api_error")],
     [reply |-> "Sure, talk to me.", extraction |-> NotAnObject("not_json")],
     [reply |-> "Sure, talk to me.",
      extraction |-> [kind |-> "object", is_decision_maker |-> "false",
                      contact_email |-> "boss@boltco.com",
                      reason |-> "says so"]]}

CapInputs ==
    {[kind |-> "input", exa_on |-> TRUE, llm_on |-> on, webset_id |-> "ws_1",
      requirement |-> r,
      listing |-> [kind |-> "ok", data |-> CapData(n, dup, nolink)],
      llm |-> [i \in 1..(MaxCapItems + 1) |-> o], t |-> 0] :
        on \in BOOLEAN,
        r \in {q \in BuyerRequirement :
                  q.email = "ann@acme.com" /\ q.productDescription = "M8 bolts"},
        n \in 0..MaxCapItems, dup \in 0..MaxCapItems,
        nolink \in 0..MaxCapItems, o \in CapLLMOutcomes}

CapInit ==
    /\ ServiceAtRest
    /\ parse_in \in CapInputs
    /\ parse_out = NoPure
    /\ sim_in = NoPure
    /\ sim_out = NoPure

CapSpec == CapInit /\ [][ParseNext]_vars

\* C12: parse_exa_webset_items returns at most 10 matches and starts at most
\* 10 conversation simulations, hence at most 20 chat completions.
C12_AtMostTenMatches ==
    parse_out.kind = "done" =>
        LET data == parse_in.listing.data
        IN  /\ Len(parse_out.results) <= 10
            /\ Len(ParseSources(data, 1, 0, {})) <= 10
            /\ Len(ParseSources(data, 1, 0, {})) = Len(parse_out.results)
            /\ SumLLMCalls(parse_in.llm_on, data, 1, {}, parse_in.llm) <= 20

C12_Witness ==
    /\ parse_out.kind = "done"
    /\ Len(parse_in.listing.data) >= 11
    /\ Cardinality({i \in 1..Len(parse_in.listing.data) :
                      Accepted(parse_in.listing.data[i], {})}) >= 11
    /\ Cardinality(ContactEmails(parse_in.listing.data)) >= 11
    /\ Len(parse_out.results) = 10

\* C20: every match returned by parse_exa_webset_items has a match_score
\* within 0..100.
C20_ScoreWithinRange ==
    parse_out.kind = "done" =>
        \A k \in 1..Len(parse_out.results) :
            /\ parse_out.results[k].match_score >= 0
            /\ parse_out.results[k].match_score <= 100

(***************************************************************************)
(* Successive responses of the service.                                    *)
(***************************************************************************)
\* get_investigation_status responds in this step, the response before it
\* was a poll of the same registered investigation, and no other handler
\* ran in between (only the clock moved).
NextPollResponds ==
    /\ PolledKnown
    /\ pc' = "idle"
    /\ pc = "items_list" \/ (pc = "idle" /\ submits' = submits /\ now' = now)
    /\ last'.op = "poll"
    /\ last'.investigation_id = last.investigation_id

\* C17: the reported status does not change with elapsed time alone: a
\* poll that runs no pipeline stage (no provider call) reports the status
\* of the poll before it when nothing but the clock moved in between.
C17_StatusChangesOnlyOnStageCompletion ==
    [][(NextPollResponds /\ pc = "idle") =>
          response'.status = response.status]_vars

\* C18: once a poll has answered "completed" with a supplier list, the next
\* poll of that investigation answers "completed" with the same list.
C18_CompletedSuppliersImmutable ==
    [][(NextPollResponds /\ response.status = "completed") =>
          /\ response'.status = "completed"
          /\ response'.suppliers = response.suppliers]_vars

\* C19: an entry of the registry is never overwritten: every step leaves
\* the requirement and the creation time of every registered investigation
\* as they are.
C19_RegisteredNeverOverwritten ==
    [][\A id \in DOMAIN investigations :
          /\ id \in DOMAIN investigations'
          /\ investigations'[id].requirement = investigations[id].requirement
          /\ investigations'[id].created_at = investigations[id].created_at]_vars

(***************************************************************************)
(* The service with failing providers: one buyer submits, the providers    *)
(* answer or fail at every call, and the statuses reported by the polls    *)
(* are recorded.  The listing, when it is returned, holds two acceptable   *)
(* candidates.                                                             *)
(***************************************************************************)
PipeRequirements == {r \in BuyerRequirement : r.email = "ann@acme.com"}

PipeItems ==
    <<[emails |-> <<"kim@boltco.com">>, name |-> "Kim Lee",
       linkedin |-> LinkedinUrl],
      [emails |-> <<"info@fastenal.com">>, name |-> Absent,
       linkedin |-> LinkedinUrl]>>

PipeListings ==
    {[kind |-> "raise", data |-> <<>>], [kind |-> "ok", data |-> PipeItems]}

PipeLLMOutcomes ==
    {[reply |-> "raise", extraction |-> NotAnObject("api_error")],
     [reply |-> "Sure, talk to me.", extraction |-> NotAnObject("api_error")],
     [reply |-> "Sure, talk to me.", extraction |-> NotAnObject("not_json")],
     [reply |-> "Sure, talk to me.",
      extraction |-> [kind |-> "object", is_decision_maker |-> "true",
                      contact_email |-> Absent, reason |-> "says so"]]}

PipeInit ==
    /\ exa_client = TRUE
    /\ openai_client \in BOOLEAN
    /\ pyhash \in {h \in PyHashes : \A k \in IdKeys : h[k] = 31234567}
    /\ investigations = Empty
    /\ websets = Empty
    /\ now = 0
    /\ pc = "idle"
    /\ cur = NoHandler
    /\ response = NoResponse
    /\ last = Last("none", None, FALSE, 0, 0, "none", <<>>, 0)
    /\ submits = 0
    /\ reported = Recording
    /\ startup = NoStartup
    /\ PureIdle

PipeNext ==
    \/ \E requirement \in PipeRequirements : process_requirements(requirement)
    \/ \E outcome \in CreateOutcomes : create_exa_webset_return(outcome)
    \/ \E investigation_id \in PollIds : get_investigation_status(investigation_id)
    \/ \E listing \in PipeListings,
          llm \in [1..Len(PipeItems) -> PipeLLMOutcomes] :
            items_list_return(listing, llm)
    \/ Tick

PipeSpec == PipeInit /\ [][PipeNext]_vars

\* C15: no failure of a provider call propagates out of a handler.  After
\* websets.create was called the submit still answers with the investigation
\* registered (webset_id None on failure); a poll that called items.list
\* answers "completed" with suppliers, the mock list when the listing
\* failed; and when the listing was returned every candidate yields a
\* match with a conversation, whichever chat completions failed.
C15_ProviderFailuresDoNotPropagate ==
    /\ (last.op = "submit" /\ last.provider_calls = 1) =>
          /\ response = SubmitResponse(last.investigation_id)
          /\ last.investigation_id \in DOMAIN investigations
          /\ investigations[last.investigation_id].webset_id
               \in WebsetIds \cup {None}
    /\ (last.op = "poll" /\ last.provider_calls = 1) =>
          /\ response.status = "completed"
          /\ "suppliers" \in DOMAIN response
          /\ response.suppliers =
               OrMock(last.discovered,
                      investigations[last.investigation_id].requirement)
          /\ last.listing = "raise" => last.discovered = <<>>
          /\ last.listing = "ok" =>
                /\ Len(last.discovered) = Len(PipeItems)
                /\ \A k \in 1..Len(last.discovered) :
                      /\ last.discovered[k].contact_email
                           = ExtractEmail(PipeItems[k])
                      /\ last.discovered[k].conversation_log # <<>>

\* Both candidates of the listing got a match although both reply
\* completions failed.
C15_Witness ==
    /\ openai_client
    /\ last.op = "poll"
    /\ last.listing = "ok"
    /\ last.llm_calls = 2
    /\ Len(last.discovered) = 2
    /\ \E k \in 1..Len(last.discovered[2].conversation_log) :
          last.discovered[2].conversation_log[k].content = FallbackReply

\* C16: the statuses reported for one investigation follow the lifecycle: a
\* status that was left is never reported again, and nothing is reported
\* after a terminal status (completed, error) but that status.  Stated for
\* the behaviours with a single submission, where no entry is replaced.
C16_StatusLifecycleOrdered ==
    submits <= 1 =>
        \A id \in DOMAIN reported.statuses :
            LET s == reported.statuses[id]
            IN  /\ \A i, j \in 1..Len(s) : i # j => s[i] # s[j]
                /\ \A i \in 1..(Len(s) - 1) :
                      s[i] \notin {"completed", "error"}

(***************************************************************************)
(* Start of the modules of the backend: the environment holds some of the  *)
(* credentials, the client constructors succeed or raise, and each module  *)
(* is imported (run) once.                                                 *)
(***************************************************************************)
Credentials ==
    {"EXA_API_KEY", "OPENAI_API_KEY", "WEAVIATE_URL", "WEAVIATE_API_KEY"}

Modules == {"main", "email_simulation", "create_collection"}

\* The environment variables each module reads while it is imported.
CredentialsOf(module) ==
    CASE module = "main" -> {"EXA_API_KEY", "OPENAI_API_KEY"}
      [] module = "email_simulation" -> {"OPENAI_API_KEY"}
      [] module = "create_collection" -> {"WEAVIATE_URL", "WEAVIATE_API_KEY"}

StartInputs ==
    [kind : {"start"}, env : SUBSET Credentials,
     exa : {"ok", "raise"}, openai : {"ok", "raise"},
     weaviate : {"ok", "raise"},
     status : {[m \in Modules |-> "not_started"]}]

\* main.py: the client is built only if its key is set, inside try/except.
InitClient(env, key, constructor) == key \in env /\ constructor = "ok"

\* email_simulation.py: client = OpenAI(), which raises without a key in
\* the environment; no try around it.
EmailSimulationStarts(env, constructor) ==
    "OPENAI_API_KEY" \in env /\ constructor = "ok"

\* create_collection.py: os.environ[...] raises KeyError for a missing
\* variable; connect_to_weaviate_cloud and collections.create may raise.
CreateCollectionStarts(env, connection) ==
    /\ "WEAVIATE_URL" \in env
    /\ "WEAVIATE_API_KEY" \in env
    /\ connection = "ok"

Started(module, up) ==
    [startup EXCEPT !.status[module] = IF up THEN "up" ELSE "crashed"]

StartInit ==
    /\ exa_client = FALSE
    /\ openai_client = FALSE
    /\ pyhash \in {h \in PyHashes : \A k \in IdKeys : h[k] = 31234567}
    /\ investigations = Empty
    /\ websets = Empty
    /\ now = 0
    /\ pc = "idle"
    /\ cur = NoHandler
    /\ response = NoResponse
    /\ last = Last("none", None, FALSE, 0, 0, "none", <<>>, 0)
    /\ submits = 0
    /\ reported = Unrecorded
    /\ startup \in StartInputs
    /\ PureIdle

ImportMain ==
    /\ startup.status["main"] = "not_started"
    /\ exa_client' = InitClient(startup.env, "EXA_API_KEY", startup.exa)
    /\ openai_client' = InitClient(startup.env, "OPENAI_API_KEY", startup.openai)
    /\ startup' = Started("main", TRUE)
    /\ UNCHANGED <<pyhash, investigations, websets, now, pc, cur, response,
                   last, submits, reported>>
    /\ UNCHANGED pure_vars

ImportEmailSimulation ==
    /\ startup.status["email_simulation"] = "not_started"
    /\ startup' = Started("email_simulation",
                          EmailSimulationStarts(startup.env, startup.openai))
    /\ UNCHANGED service_vars
    /\ UNCHANGED pure_vars

RunCreateCollection ==
    /\ startup.status["create_collection"] = "not_started"
    /\ startup' = Started("create_collection",
                          CreateCollectionStarts(startup.env, startup.weaviate))
    /\ UNCHANGED service_vars
    /\ UNCHANGED pure_vars

StartNext == ImportMain \/ ImportEmailSimulation \/ RunCreateCollection

StartSpec == StartInit /\ [][StartNext]_vars

\* C14: whatever credentials are missing, no module crashes at start
\* because of a missing credential, and the service starts with the client
\* of a missing key absent (discovery skipped, basic conversation used).
C14_MissingCredentialsDoNotCrash ==
    /\ \A m \in Modules :
          startup.status[m] = "crashed" => CredentialsOf(m) \subseteq startup.env
    /\ startup.status["main"] = "up" =>
          /\ "EXA_API_KEY" \notin startup.env => ~exa_client
          /\ "OPENAI_API_KEY" \notin startup.env => ~openai_client

\* C21: in the list returned by parse_exa_webset_items every match has a
\* match_score strictly lower than the match before it.
C21_ScoresDecreasing ==
    parse_out.kind = "done" =>
        \A k \in 2..Len(parse_out.results) :
            parse_out.results[k].match_score
                < parse_out.results[k - 1].match_score

(***************************************************************************)
(* The service with a polling client: the clock keeps advancing, every     *)
(* provider call returns or raises, and the client polls every identifier  *)
(* again and again.  The clock of the model stops at MaxTime, so a         *)
(* requirement is submitted only while the time left lets its              *)
(* investigation grow old enough to complete.                              *)
(***************************************************************************)
LiveInit ==
    /\ exa_client \in BOOLEAN
    /\ openai_client \in BOOLEAN
    /\ pyhash \in {h \in PyHashes : \A k \in IdKeys : h[k] = 31234567}
    /\ investigations = Empty
    /\ websets = Empty
    /\ now = 0
    /\ pc = "idle"
    /\ cur = NoHandler
    /\ response = NoResponse
    /\ last = Last("none", None, FALSE, 0, 0, "none", <<>>, 0)
    /\ submits = 0
    /\ reported = Unrecorded
    /\ startup = NoStartup
    /\ PureIdle

\* A submission early enough for the bounded clock.
TimelySubmit(requirement) ==
    /\ now + (IF exa_client THEN WebsetWait ELSE 0) + CompletedAfter + TickStep
          <= MaxTime
    /\ process_requirements(requirement)

LiveCreateReturns ==
    \E outcome \in CreateOutcomes : create_exa_webset_return(outcome)

LiveItemsReturn ==
    \E listing \in PipeListings, o \in ServiceLLMOutcomes :
        items_list_return(listing, [i \in 1..Len(PipeItems) |-> o])

LiveNext ==
    \/ \E requirement \in PipeRequirements : TimelySubmit(requirement)
    \/ LiveCreateReturns
    \/ \E investigation_id \in PollIds : get_investigation_status(investigation_id)
    \/ LiveItemsReturn
    \/ Tick

LiveFairness ==
    /\ SF_vars(Tick)
    /\ WF_vars(LiveCreateReturns)
    /\ WF_vars(LiveItemsReturn)
    /\ \A investigation_id \in PollIds :
          SF_vars(get_investigation_status(investigation_id))

LiveSpec == LiveInit /\ [][LiveNext]_vars /\ LiveFairness

\* A poll of the investigation has just answered completed, with progress
\* 100 and a suppliers field.
CompletedReported(investigation_id) ==
    /\ last.op = "poll"
    /\ last.investigation_id = investigation_id
    /\ response.status = "completed"
    /\ response.progress = 100
    /\ "suppliers" \in DOMAIN response

\* C22: every registered investigation is eventually reported completed,
\* with progress 100 and a suppliers field, when time advances and the
\* client keeps polling, whatever discovery and simulation yield.
C22_EventuallyCompleted ==
    \A investigation_id \in InvestigationIds :
        (investigation_id \in DOMAIN investigations)
            ~> CompletedReported(investigation_id)

\* Completed is reported for an investigation whose listing failed.
C22_Witness ==
    /\ \E investigation_id \in DOMAIN investigations :
          CompletedReported(investigation_id)
    /\ last.listing = "raise"
    /\ response.suppliers # <<>>

(***************************************************************************)
(* simulate_email_conversation followed by the annotation step of          *)
(* parse_exa_webset_items ("Add analysis note") on its result.             *)
(***************************************************************************)
AnnotateConversation ==
    /\ sim_out.kind = "main"
    /\ sim_out' = [kind |-> "annotated",
                   result |-> sim_out.result,
                   conversation_log |-> Annotate(sim_out.result, sim_in.t)]
    /\ UNCHANGED <<sim_in, parse_in, parse_out>>
    /\ UNCHANGED <<service_vars, startup>>

NoteNext == SimulateEmailConversation \/ AnnotateConversation

NoteSpec == SimInit /\ [][NoteNext]_vars

\* Both chat completions succeeded and the extraction parsed to an object.
ParsedExtraction ==
    /\ sim_in.llm_on
    /\ sim_in.o.reply # "raise"
    /\ sim_in.o.extraction.kind = "object"

\* The contents of the system messages of a log, analysis notes aside.
DecisionNotes(log) ==
    {log[k].content : k \in {j \in 1..Len(log) : log[j].role = "system"}}
        \ {"Analysis: " \o reason : reason \in {"", "says so"}}

\* C23: for a parsed extraction the next action of
\* simulate_email_conversation is contact_new_email with the extracted
\* e-mail exactly when is_decision_maker is false and a contact e-mail was
\* extracted, continue_with_current_contact with the supplier's e-mail
\* exactly when is_decision_maker is true, and none otherwise; the system
\* note appended to the log is the one of that case.
C23_NextActionAgreesWithExtraction ==
    (sim_out.kind \in {"main", "annotated"} /\ ParsedExtraction) =>
        LET extracted == sim_in.o.extraction
            decides == Truthy(extracted.is_decision_maker)
            redirects == ~decides /\ Truthy(extracted.contact_email)
            next_action == sim_out.result.next_action
        IN  /\ next_action.action = "contact_new_email" <=> redirects
            /\ redirects => next_action.email = extracted.contact_email
            /\ next_action.action = "continue_with_current_contact" <=> decides
            /\ decides => next_action.email = sim_in.supplier_email
            /\ next_action = NoAction <=> (~decides /\ ~redirects)
            /\ sim_out.kind = "annotated" =>
                  DecisionNotes(sim_out.conversation_log) =
                     IF redirects
                     THEN {"Not decision maker. Recommended next contact: "
                              \o extracted.contact_email}
                     ELSE IF decides
                          THEN {"Confirmed decision maker. Ready for detailed discussion."}
                          ELSE {}

\* A supplier who is not the decision maker named another contact, and the
\* note was appended.
C23_Witness ==
    /\ sim_out.kind = "annotated"
    /\ ParsedExtraction
    /\ sim_in.o.extraction.is_decision_maker = "false"
    /\ sim_in.o.extraction.contact_email = "boss@boltco.com"
    /\ sim_out.result.next_action.action = "contact_new_email"
    /\ Len(sim_out.conversation_log) > Len(sim_out.result.conversation)

====
